---- MODULE Spec2Model ----
(***************************************************************************)
(* MISO market report downloader (miso.py): the caching fetcher Data, the  *)
(* spreadsheet converter convert_df_al2csv and the time-series assemblers  *)
(* Node and Zone.                                                          *)
(*                                                                         *)
(* Bytes are records [fmt, body]; text is a sequence of lines, a line a    *)
(* sequence of fields.  A table (pandas DataFrame) is a record             *)
(* [index, cols, rows], each row laid out as index columns then data       *)
(* columns.  A day is an integer; a timestamp is in seconds.               *)
(***************************************************************************)
EXTENDS Integers, Sequences, FiniteSets, TLC

VARIABLES cachedir, cache, call, firstOk, query, asm,
          ckey, cpc, ccontent, cdata

vars == <<cachedir, cache, call, firstOk, query, asm,
          ckey, cpc, ccontent, cdata>>

(* ------------------------------ bounds --------------------------------- *)
MaxDay == 2
Days == 1..MaxDay

(* ------------------------- program constants --------------------------- *)
NumHours == 24
SkipRows == 4
SecondsPerHour == 3600
ZoneStart == 2
ZoneStep == 2
FirstHourRow == 6
EndHourRow == 30

DATAFORMATS ==
  [ds \in {"da_exante_lmp", "da_expost_lmp", "df_al", "rt_lmp_final", "rt_lmp_prelim"} |->
     IF ds = "df_al" THEN "xls" ELSE "csv"]

\* the module-level functions named convert_<dataset>2csv (globals())
Converters == {"df_al"}

Node_VALIDTYPES == {"Interface", "Loadzone", "Hub", "Gennode"}
Node_VALIDVALUES == {"LMP", "MCC", "MLC"}
Zone_VALIDTYPES == {"Forecast", "Actual"}
Zone_VALIDVALUES == {"LOAD"}

(* ------------------------------ helpers -------------------------------- *)
RECURSIVE Flatten(_)
Flatten(ss) == IF ss = <<>> THEN <<>> ELSE Head(ss) \o Flatten(Tail(ss))

InTrace(ev, tr) == \E i \in 1..Len(tr) : tr[i] = ev

Ok(d) == [status |-> "ok", exc |-> "", data |-> d]
Raise(e) == [status |-> "raise", exc |-> e, data |-> <<>>]

(* --------------------- the report server (fixture) --------------------- *)
\* the published numeric field of row r, hour column h, of day d
Val(d, r, h) == ToString(d * 1000 + r * 100 + h)

HourFields(d, r, missing) ==
  [i \in 1..NumHours |-> IF (i - 1) \in missing THEN "" ELSE Val(d, r, i - 1)]

DescLines == <<<<"desc1">>, <<"desc2">>, <<"desc3">>, <<"desc4">>>>

LmpHeader == <<"Node", "Type", "Value">> \o [i \in 1..NumHours |-> "HE" \o ToString(i)]

\* odd days publish nodes A and B, complete; even days publish nodes B
\* and C, node B without a value for hour 5
LmpRows(d) ==
  IF d % 2 = 1
  THEN << <<"A", "Loadzone", "LMP">> \o HourFields(d, 1, {}),
          <<"A", "Loadzone", "MCC">> \o HourFields(d, 2, {}),
          <<"B", "Hub", "LMP">> \o HourFields(d, 3, {}) >>
  ELSE << <<"B", "Hub", "LMP">> \o HourFields(d, 1, {5}),
          <<"C", "Loadzone", "MLC">> \o HourFields(d, 2, {}) >>

LmpReport(d) == [fmt |-> "csv", body |-> DescLines \o <<LmpHeader>> \o LmpRows(d)]

LmpReports == [d \in Days |-> LmpReport(d)]

\* the first sheet of the forecast/actual load workbook: rows 0..3
\* descriptive, row 4 the labelled zone header (a label is its tokens),
\* row 5 a sub-header, rows 6..29 the hours; numbers are in thousandths
SheetZones(d) == IF d % 2 = 1 THEN <<"LRZ1", "LRZ2">> ELSE <<"LRZ2", "LRZ3">>

DfalSheet(d) ==
  [r \in 1..EndHourRow |->
     IF r <= SkipRows THEN <<"desc" \o ToString(r)>>
     ELSE IF r = 5
       THEN << <<"Market", "Day">>, <<"HourEnding">>,
               <<SheetZones(d)[1], "MTLF", "(MWh)">>, <<SheetZones(d)[1], "ActualLoad", "(MWh)">>,
               <<SheetZones(d)[2], "MTLF", "(MWh)">>, <<SheetZones(d)[2], "ActualLoad", "(MWh)">> >>
     ELSE IF r = 6 THEN <<"sub", "sub", "sub", "sub", "sub", "sub">>
     ELSE <<d, r - FirstHourRow, d * 100000 + r * 10 + 4, d * 100000 + r * 10 + 1004,
            d * 100000 + r * 10 + 2006, d * 100000 + r * 10 + 3006>>]

DfalReport(d) == [fmt |-> "xls", body |-> DfalSheet(d)]

DfalReports == [d \in Days |-> DfalReport(d)]

ServerReport(dataset, day) ==
  IF DATAFORMATS[dataset] = "xls" THEN DfalReports[day] ELSE LmpReports[day]

\* the body a server sends with an HTTP error status
ErrorPage == [fmt |-> "html", body |-> <<<<"404 Not Found">>>>]

\* a file whose write stopped part-way
Truncate(b) == [fmt |-> "partial", body |-> SubSeq(b.body, 1, Len(b.body) \div 2)]

EmptyFile == [fmt |-> "empty", body |-> <<>>]

(* --------------------------- convert_df_al2csv ------------------------- *)
\* sheet.row(r)[c], both 0-based
Cell(sheet, r, c) == sheet[r + 1][c + 1]

\* str(round(v, 2)) of a number held in thousandths (no ties in the fixture)
Round2(v) == ToString((v + 5) \div 10)

ZoneColumns(sheet) ==
  LET n == Len(sheet[SkipRows + 1])
  IN  [k \in 1..((n - ZoneStart + ZoneStep - 1) \div ZoneStep) |-> ZoneStart + (k - 1) * ZoneStep]

ZoneRow(sheet, zone, type, off) ==
  <<Head(Cell(sheet, SkipRows, zone)), type, "LOAD">> \o
  [i \in 1..(EndHourRow - FirstHourRow) |-> Round2(Cell(sheet, FirstHourRow + i - 1, zone + off))]

convert_df_al2csv(sheet) ==
  LET zc == ZoneColumns(sheet)
  IN  [r \in 1..SkipRows |-> sheet[r]]
      \o << <<"Zone", "Type", "Value">> \o [i \in 1..NumHours |-> ToString(i - 1)] >>
      \o [k \in 1..Len(zc) |-> ZoneRow(sheet, zc[k], "Forecast", 0)]
      \o [k \in 1..Len(zc) |-> ZoneRow(sheet, zc[k], "Actual", 1)]

(* -------------------------------- Data --------------------------------- *)
Filename(dataset, day) == <<dataset, day, DATAFORMATS[dataset]>>

Exists(c, f) == f \in DOMAIN c

WriteFile(c, f, b) == [x \in DOMAIN c \cup {f} |-> IF x = f THEN b ELSE c[x]]

RemoveFile(c, f) == [x \in DOMAIN c \ {f} |-> c[x]]

\* content.decode('utf-8')
Decode(b) ==
  IF b.fmt = "xls" THEN Raise("UnicodeDecodeError") ELSE Ok(b.body)

\* requests.get(url).content: a network error raises; an HTTP error status
\* does not, its body is the content
GetOutcomes == {"ok", "neterr", "http"}

Retrieve(dataset, day, get) ==
  IF get = "neterr" THEN Raise("ConnectionError")
  ELSE IF get = "http" THEN Ok(ErrorPage)
  ELSE Ok(ServerReport(dataset, day))

\* open(filename,"wb") / fh.write(content): "openfail" creates no file,
\* "partial" leaves a truncated file
WriteOutcomes == {"ok", "openfail", "partial"}

\* Persist leaving the partly written file in place when the write fails
Persist_KeepPartial(c, f, content, wr) ==
  IF wr = "ok"
  THEN [cache |-> WriteFile(c, f, content), result |-> Ok(content), trace |-> <<"write">>]
  ELSE IF wr = "partial"
  THEN [cache |-> WriteFile(c, f, Truncate(content)),
        result |-> Raise("OSError"), trace |-> <<"write">>]
  ELSE [cache |-> c, result |-> Raise("FileNotFoundError"), trace |-> <<"write">>]

\* Persist storing the converted text of a workbook instead of its bytes
Persist_Converted(c, f, content, wr) ==
  LET stored == IF content.fmt = "xls"
                THEN [fmt |-> "csv", body |-> convert_df_al2csv(content.body)]
                ELSE content
  IN  IF wr = "ok"
      THEN [cache |-> WriteFile(c, f, stored), result |-> Ok(content), trace |-> <<"write">>]
      ELSE IF wr = "partial"
      THEN [cache |-> RemoveFile(WriteFile(c, f, Truncate(content)), f),
            result |-> Raise("OSError"), trace |-> <<"write", "remove">>]
      ELSE [cache |-> c, result |-> Raise("FileNotFoundError"), trace |-> <<"write", "remove">>]

\* Persist with a short write that goes unnoticed
Persist_Short(c, f, content, wr) ==
  IF wr = "ok"
  THEN [cache |-> WriteFile(c, f, Truncate(content)), result |-> Ok(content), trace |-> <<"write">>]
  ELSE IF wr = "partial"
  THEN [cache |-> RemoveFile(WriteFile(c, f, Truncate(content)), f),
        result |-> Raise("OSError"), trace |-> <<"write", "remove">>]
  ELSE [cache |-> c, result |-> Raise("FileNotFoundError"), trace |-> <<"write", "remove">>]

\* lines 69-74: the write, and on failure os.remove(filename) and raise
Persist(c, f, content, wr) ==
  IF wr = "ok"
  THEN [cache |-> WriteFile(c, f, content), result |-> Ok(content), trace |-> <<"write">>]
  ELSE IF wr = "partial"
  THEN [cache |-> RemoveFile(WriteFile(c, f, Truncate(content)), f),
        result |-> Raise("OSError"), trace |-> <<"write", "remove">>]
  ELSE [cache |-> c, result |-> Raise("FileNotFoundError"), trace |-> <<"write", "remove">>]

\* lines 66-77: content from the network and into the cache, or from the cache
Load(c, dataset, day, get, wr) ==
  LET f == Filename(dataset, day)
  IN  IF ~Exists(c, f)
      THEN LET got == Retrieve(dataset, day, get)
           IN  IF got.status = "raise"
               THEN [cache |-> c, result |-> got, trace |-> <<"exists", "get">>]
               ELSE LET p == Persist(c, f, got.data, wr)
                    IN  [cache |-> p.cache, result |-> p.result,
                         trace |-> <<"exists", "get">> \o p.trace]
      ELSE [cache |-> c, result |-> Ok(c[f]), trace |-> <<"exists", "read">>]

\* lines 78-86: the workbook is opened from the cache file and converted,
\* delimited content is decoded
Normalise(c, dataset, day, content) ==
  LET f == Filename(dataset, day)
  IN  IF DATAFORMATS[dataset] = "xls"
      THEN IF c[f].fmt # "xls"
           THEN [result |-> Raise("XLRDError"), trace |-> <<"open_workbook">>]
           ELSE IF dataset \notin Converters
           THEN [result |-> Raise("MisoInvalidDataFormat"), trace |-> <<"open_workbook">>]
           ELSE [result |-> Ok(convert_df_al2csv(c[f].body)),
                 trace |-> <<"open_workbook", "convert">>]
      ELSE [result |-> Decode(content), trace |-> <<"decode">>]

\* the cache as loaded and the text (or the error) of lines 78-86
Loaded(l, n) == [cache |-> l.cache, result |-> n.result, trace |-> l.trace \o n.trace]

\* lines 78-86 after lines 66-77 gave l
AfterLoad(dataset, day, l) ==
  IF l.result.status = "raise" THEN l
  ELSE Loaded(l, Normalise(l.cache, dataset, day, l.result.data))

\* Data.__init__(dataset, day)
Data(c, dataset, day, get, wr) ==
  IF dataset \notin DOMAIN DATAFORMATS
  THEN [cache |-> c, result |-> Raise("KeyError"), trace |-> <<>>]
  ELSE AfterLoad(dataset, day, Load(c, dataset, day, get, wr))

(* ------------------------- the table engine ---------------------------- *)
\* a missing value (an empty field read by pd.read_csv)
NaN == ""

Names(t) == t.index \o t.cols

HasCol(t, name) == \E i \in 1..Len(Names(t)) : Names(t)[i] = name

ColPos(t, name) == CHOOSE i \in 1..Len(Names(t)) : Names(t)[i] = name

Without(seq, i) == SubSeq(seq, 1, i - 1) \o SubSeq(seq, i + 1, Len(seq))

\* pd.read_csv(stream, skiprows=4): line 5 is the header
ReadCsv(text) ==
  IF Len(text) <= SkipRows THEN Raise("EmptyDataError")
  ELSE Ok([index |-> <<>>, cols |-> text[SkipRows + 1],
           rows |-> SubSeq(text, SkipRows + 2, Len(text))])

\* data.insert(0, name, v)
Insert0(t, name, v) ==
  [index |-> t.index, cols |-> <<name>> \o t.cols,
   rows |-> [i \in 1..Len(t.rows) |->
               SubSeq(t.rows[i], 1, Len(t.index)) \o <<v>> \o
               SubSeq(t.rows[i], Len(t.index) + 1, Len(t.rows[i]))]]

\* FilterEq whose selection is not kept
FilterEq_NoOp(t, name, v) == t

\* data[data[name] == v]
FilterEq(t, name, v) ==
  LET p == ColPos(t, name)
      Keep(row) == row[p] = v
  IN  [index |-> t.index, cols |-> t.cols, rows |-> SelectSeq(t.rows, Keep)]

\* data.drop(name, axis=1)
DropCol(t, name) ==
  LET p == ColPos(t, name)
  IN  [index |-> t.index, cols |-> Without(t.cols, p - Len(t.index)),
       rows |-> [i \in 1..Len(t.rows) |-> Without(t.rows[i], p)]]

\* data.set_index(index) on a table with the default index
SetIndex(t, index) ==
  LET InIndex(name) == \E i \in 1..Len(index) : index[i] = name
      NotInIndex(name) == ~InIndex(name)
      rest == SelectSeq(t.cols, NotInIndex)
      order == [i \in 1..Len(index) |-> ColPos(t, index[i])] \o
               [i \in 1..Len(rest) |-> ColPos(t, rest[i])]
  IN  [index |-> index, cols |-> rest,
       rows |-> [i \in 1..Len(t.rows) |-> [j \in 1..Len(order) |-> t.rows[i][order[j]]]]]

\* list(range(24))
HourLabels == [i \in 1..NumHours |-> i - 1]

\* data.stack(dropna=dropna).reset_index() of a table whose columns are
\* labelled HourLabels: one row per row and labelled column, in that
\* order, the label in the column after the index and the value in the last
Stack(t, dropna) ==
  LET n == Len(t.index)
      Long(row) == LET Has(j) == ~dropna \/ row[n + j] # NaN
                       kept == SelectSeq([j \in 1..Len(t.cols) |-> j], Has)
                       idx == SubSeq(row, 1, n)
                   IN  [k \in 1..Len(kept) |-> idx \o <<HourLabels[kept[k]], row[n + kept[k]]>>]
  IN  [index |-> <<>>,
       cols |-> t.index \o <<"level_" \o ToString(n), "0">>,
       rows |-> Flatten([i \in 1..Len(t.rows) |-> Long(t.rows[i])])]

\* AddHours taking the hour number for a number of minutes
AddHours_Minutes(t) ==
  LET d == ColPos(t, "Datetime")
      h == ColPos(t, "hour")
  IN  [index |-> t.index, cols |-> t.cols,
       rows |-> [i \in 1..Len(t.rows) |->
                   [t.rows[i] EXCEPT ![d] = @ + t.rows[i][h] * 60]]]

\* data["Datetime"] + pd.to_timedelta(data["hour"]*3600e9)
AddHours(t) ==
  LET d == ColPos(t, "Datetime")
      h == ColPos(t, "hour")
  IN  [index |-> t.index, cols |-> t.cols,
       rows |-> [i \in 1..Len(t.rows) |->
                   [t.rows[i] EXCEPT ![d] = @ + t.rows[i][h] * SecondsPerHour]]]

\* the day at midnight
Midnight(day) == day * NumHours * SecondsPerHour

(* --------------------------- Node and Zone ----------------------------- *)
\* lines 144-148: one selection parameter; a filter on a column the table
\* lacks is a KeyError
Select(st, name, filter) ==
  IF st.result.status = "raise" THEN st
  ELSE IF filter = "*"
  THEN [result |-> st.result, index |-> Append(st.index, name)]
  ELSE IF ~HasCol(st.result.data, name)
  THEN [result |-> Raise("KeyError"), index |-> st.index]
  ELSE [result |-> Ok(DropCol(FilterEq(st.result.data, name, filter), name)),
        index |-> st.index]

\* lines 162-172
Reshape(t, index, dropna) ==
  LET a == SetIndex(t, index)
  IN  IF Len(a.cols) # NumHours THEN Raise("ValueError")
      ELSE LET b == Stack([a EXCEPT !.cols = [i \in 1..NumHours |-> ToString(HourLabels[i])]],
                          dropna)
               c == [b EXCEPT !.cols[Len(index) + 1] = "hour"]
               d == DropCol(AddHours(c), "hour")
               e == SetIndex(d, index)
           IN  IF Len(e.cols) # 1 THEN Raise("ValueError")
               ELSE Ok([e EXCEPT !.cols = <<"Value">>])

\* lines 138-172: one day's table from the day's text
DayTable(entity, text, day, q) ==
  LET parsed == ReadCsv(text)
  IN  IF parsed.status = "raise" THEN parsed
      ELSE LET s0 == [result |-> Ok(Insert0(parsed.data, "Datetime", Midnight(day))),
                      index |-> <<"Datetime">>]
               s1 == Select(s0, entity, q.entity)
               s2 == Select(s1, "Type", q.types)
               s3 == Select(s2, "Value", q.values)
           IN  IF s3.result.status = "raise" THEN s3.result
               ELSE IF q.stack THEN Reshape(s3.result.data, s3.index, q.dropna)
               ELSE s3.result

\* pd.concat(result)
Concat(tables) ==
  IF tables = <<>> THEN Raise("ValueError")
  ELSE Ok([index |-> tables[1].index, cols |-> tables[1].cols,
           rows |-> Flatten([i \in 1..Len(tables) |-> tables[i].rows])])

\* The loop of lines 133-175 over pd.date_range(starttime, stoptime,
\* freq='D').  Its state st carries the cache, the accumulated tables, the
\* collaborator calls, the text fetched for each day and the days whose
\* retrieval was attempted.
LoopStart(c) ==
  [cache |-> c, tables |-> <<>>, error |-> Ok(<<>>), trace |-> <<>>,
   fetched |-> <<>>, gets |-> {}]

\* line 137 done: f is what Data(dataset, day) did
Fetched(st, day, f) ==
  [st EXCEPT !.cache = f.cache,
             !.trace = @ \o f.trace,
             !.gets = IF InTrace("get", f.trace) THEN @ \cup {day} ELSE @,
             !.error = IF f.result.status = "raise" THEN f.result ELSE @,
             !.fetched = IF f.result.status = "raise" THEN @ ELSE @ \o <<f.result.data>>]

\* lines 174-175
Accumulate(st, t) ==
  IF t.status = "raise" THEN [st EXCEPT !.error = t]
  ELSE IF Len(t.data.rows) > 0 THEN [st EXCEPT !.tables = Append(@, t.data)]
  ELSE st

RECURSIVE Loop(_, _, _, _, _, _)
RECURSIVE AfterFetch(_, _, _, _, _, _, _)
RECURSIVE AfterTable(_, _, _, _, _, _)

Loop(entity, q, day, stop, env, st) ==
  IF day > stop THEN st
  ELSE AfterFetch(entity, q, day, stop, env, st,
                  Data(st.cache, q.dataset, day, env[day][1], env[day][2]))

\* lines 138-172 when the fetch of the day did not raise
AfterFetch(entity, q, day, stop, env, st, f) ==
  IF f.result.status = "raise" THEN Fetched(st, day, f)
  ELSE AfterTable(entity, q, day, stop, env,
                  Accumulate(Fetched(st, day, f), DayTable(entity, f.result.data, day, q)))

\* the next day unless the day raised
AfterTable(entity, q, day, stop, env, st) ==
  IF st.error.status = "raise" THEN st
  ELSE Loop(entity, q, day + 1, stop, env, st)

\* line 177 after the loop
Finish(st) ==
  [cache |-> st.cache, trace |-> st.trace, fetched |-> st.fetched, gets |-> st.gets,
   completed |-> st.error.status = "ok", naccum |-> Len(st.tables),
   result |-> IF st.error.status = "raise" THEN st.error ELSE Concat(st.tables)]

\* lines 133-177
Collect(entity, c, q, start, stop, env) ==
  Finish(Loop(entity, q, start, stop, env, LoopStart(c)))

Rejected(c, exc) ==
  [cache |-> c, trace |-> <<>>, fetched |-> <<>>, gets |-> {},
   completed |-> FALSE, naccum |-> 0, result |-> Raise(exc)]

\* lines 127-131: MiseValueNotFound is not defined, raising it is a NameError
Validate(validtypes, validvalues, q) ==
  IF q.types # "*" /\ q.types \notin validtypes THEN Raise("MisoTypeNotFound")
  ELSE IF q.values # "*" /\ q.values \notin validvalues THEN Raise("NameError")
  ELSE Ok(<<>>)

\* Assembler validating the filters after the days were collected
Assembler_LateValidation(entity, validtypes, validvalues, c, q, start, stop, env) ==
  LET v == Validate(validtypes, validvalues, q)
  IN  IF v.status = "raise"
      THEN [Collect(entity, c, q, start, stop, env) EXCEPT
              !.result = v, !.completed = FALSE, !.naccum = 0]
      ELSE Collect(entity, c, q, start, stop, env)

\* Node.__init__ and Zone.__init__, which differ in the entity column and
\* the vocabularies
Assembler(entity, validtypes, validvalues, c, q, start, stop, env) ==
  LET v == Validate(validtypes, validvalues, q)
  IN  IF v.status = "raise" THEN Rejected(c, v.exc)
      ELSE Collect(entity, c, q, start, stop, env)

Node(c, q, start, stop, env) ==
  Assembler("Node", Node_VALIDTYPES, Node_VALIDVALUES, c, q, start, stop, env)

Zone(c, q, start, stop, env) ==
  Assembler("Zone", Zone_VALIDTYPES, Zone_VALIDVALUES, c, q, start, stop, env)

(* ------------------- state outside the current spec -------------------- *)
NoCall == [op |-> "none"]
NoQuery == [variant |-> "none"]
Procs == {"p1", "p2"}
NoKey == <<"none", 0>>
IdleProcs == [p \in Procs |-> "idle"]
NoContent == [p \in Procs |-> EmptyFile]
NoData == [p \in Procs |-> Raise("")]

EmptyCache == [x \in {} |-> EmptyFile]

(* ------------------ direct calls of the fetcher: SpecFetch ------------- *)
FetchDatasets == {"rt_lmp_final", "df_al", "no_such_report"}

InitFetch ==
  /\ cachedir = FALSE
  /\ cache = EmptyCache
  /\ call = NoCall
  /\ firstOk = [x \in {} |-> <<>>]
  /\ query = NoQuery
  /\ asm = NoCall
  /\ ckey = NoKey
  /\ cpc = IdleProcs
  /\ ccontent = NoContent
  /\ cdata = NoData

\* the outcomes of the collaborators a call does not reach are fixed to "ok"
Consumed(c, dataset, day, get, wr) ==
  LET known == dataset \in DOMAIN DATAFORMATS
      hit == known /\ Exists(c, Filename(dataset, day))
  IN  /\ (~known \/ hit) => get = "ok"
      /\ (~known \/ hit \/ get = "neterr") => wr = "ok"

\* Data(dataset, day)
Fetch ==
  \E dataset \in FetchDatasets, day \in Days, get \in GetOutcomes, wr \in WriteOutcomes :
    /\ Consumed(cache, dataset, day, get, wr)
    /\ \E r \in {Data(cache, dataset, day, get, wr)} :
       LET known == dataset \in DOMAIN DATAFORMATS
           hit == known /\ Exists(cache, Filename(dataset, day))
       IN  /\ cachedir' = TRUE
           /\ cache' = r.cache
           /\ call' = [op |-> "Data", dataset |-> dataset, day |-> day, hit |-> hit,
                       get |-> get, wr |-> wr, result |-> r.result, trace |-> r.trace]
           /\ firstOk' =
                IF known /\ r.result.status = "ok" /\ Filename(dataset, day) \notin DOMAIN firstOk
                THEN [x \in DOMAIN firstOk \cup {Filename(dataset, day)} |->
                        IF x = Filename(dataset, day) THEN r.result.data ELSE firstOk[x]]
                ELSE firstOk
    /\ UNCHANGED <<query, asm, ckey, cpc, ccontent, cdata>>

SpecFetch == InitFetch /\ [][Fetch]_vars

\* the key of the last direct call, when its dataset is known
CallKnown == call.op = "Data" /\ call.dataset \in DOMAIN DATAFORMATS
CallFile == Filename(call.dataset, call.day)

(* ------------------ calls of the assemblers: SpecAsm ------------------- *)
\* the selection of a session: the variant, its dataset and the filters,
\* each filter a wildcard, a member of the vocabulary or a stranger
Queries ==
  { [variant |-> v, dataset |-> IF v = "Node" THEN "rt_lmp_final" ELSE "df_al",
     stack |-> st, types |-> ty, values |-> va, entity |-> en, dropna |-> dr] :
      v \in {"Node", "Zone"}, st \in BOOLEAN, dr \in BOOLEAN,
      ty \in {"*", "Loadzone", "Forecast", "Bogus"},
      va \in {"*", "LMP", "LOAD", "Bogus"},
      en \in {"*", "A", "LRZ1"} }

QueryInputs ==
  { q \in Queries :
      /\ q.variant = "Node" => q.types # "Forecast" /\ q.values # "LOAD" /\ q.entity # "LRZ1"
      /\ q.variant = "Zone" => q.types # "Loadzone" /\ q.values # "LMP" /\ q.entity # "A"
      /\ ~q.stack => q.dropna }

\* what the collaborators do for a day, as <<GET, cache write>>: the report
\* is retrieved and cached, or the network fails (SpecFetch draws the HTTP
\* error status and the failures of the write, after which no table is made)
AsmOutcomes == {<<"ok", "ok">>, <<"neterr", "ok">>}

InitAsm ==
  /\ cachedir = FALSE
  /\ cache = EmptyCache
  /\ call = NoCall
  /\ firstOk = [x \in {} |-> <<>>]
  /\ query \in QueryInputs
  /\ asm = NoCall
  /\ ckey = NoKey
  /\ cpc = IdleProcs
  /\ ccontent = NoContent
  /\ cdata = NoData

Record(op, start, stop, r) ==
  [op |-> op, start |-> start, stop |-> stop, result |-> r.result, trace |-> r.trace,
   fetched |-> r.fetched, completed |-> r.completed, naccum |-> r.naccum]

\* the outcomes of the days that are not retrieved are fixed to "ok": the
\* days outside the range or already cached, and the days after a failure
Reachable(env, c, q, start, stop) ==
  \A d \in Days : env[d] # <<"ok", "ok">> =>
     d \in start..stop /\ ~Exists(c, Filename(q.dataset, d))

Reached(env, r) == \A d \in Days : env[d] # <<"ok", "ok">> => d \in r.gets

\* Node(starttime, stoptime, dataset, stack, types, values, nodes, dropna)
NodeCall ==
  /\ query.variant = "Node"
  /\ \E start \in Days, stop \in Days, env \in [Days -> AsmOutcomes] :
       /\ Reachable(env, cache, query, start, stop)
       /\ \E r \in {Node(cache, query, start, stop, env)} :
           /\ Reached(env, r)
           /\ cache' = r.cache
           /\ cachedir' = (cachedir \/ r.trace # <<>>)
           /\ asm' = Record("Node", start, stop, r)
  /\ UNCHANGED <<call, firstOk, query, ckey, cpc, ccontent, cdata>>

\* Zone(starttime, stoptime, dataset, stack, types, values, zones, dropna)
ZoneCall ==
  /\ query.variant = "Zone"
  /\ \E start \in Days, stop \in Days, env \in [Days -> AsmOutcomes] :
       /\ Reachable(env, cache, query, start, stop)
       /\ \E r \in {Zone(cache, query, start, stop, env)} :
           /\ Reached(env, r)
           /\ cache' = r.cache
           /\ cachedir' = (cachedir \/ r.trace # <<>>)
           /\ asm' = Record("Zone", start, stop, r)
  /\ UNCHANGED <<call, firstOk, query, ckey, cpc, ccontent, cdata>>

NextAsm == NodeCall \/ ZoneCall

SpecAsm == InitAsm /\ [][NextAsm]_vars

(* ------- two processes fetching one key from a miss: SpecRace ---------- *)
\* Every retrieval and every write succeeds; only the order of the steps
\* of the two calls of Data.__init__ varies.
RaceKeys == {<<ds, day>> : ds \in {"rt_lmp_final", "df_al"}, day \in Days}

RaceFile == Filename(ckey[1], ckey[2])

InitRace ==
  /\ cachedir = FALSE
  /\ cache = EmptyCache
  /\ call = NoCall
  /\ firstOk = [x \in {} |-> <<>>]
  /\ query = NoQuery
  /\ asm = NoCall
  /\ ckey \in RaceKeys
  /\ cpc = [p \in Procs |-> "start"]
  /\ ccontent = NoContent
  /\ cdata = NoData

\* lines 63-66: os.makedirs and os.path.exists(filename)
CExists(p) ==
  /\ cpc[p] = "start"
  /\ cachedir' = TRUE
  /\ cpc' = [cpc EXCEPT ![p] = IF Exists(cache, RaceFile) THEN "read" ELSE "get"]
  /\ UNCHANGED <<cache, call, firstOk, query, asm, ckey, ccontent, cdata>>

\* line 68: requests.get(url).content
CGet(p) ==
  /\ cpc[p] = "get"
  /\ ccontent' = [ccontent EXCEPT ![p] = Retrieve(ckey[1], ckey[2], "ok").data]
  /\ cpc' = [cpc EXCEPT ![p] = "open"]
  /\ UNCHANGED <<cachedir, cache, call, firstOk, query, asm, ckey, cdata>>

\* line 70: open(filename,"wb") creates the file or truncates it
COpen(p) ==
  /\ cpc[p] = "open"
  /\ cache' = WriteFile(cache, RaceFile, EmptyFile)
  /\ cpc' = [cpc EXCEPT ![p] = "write"]
  /\ UNCHANGED <<cachedir, call, firstOk, query, asm, ckey, ccontent, cdata>>

\* line 71: fh.write(content) and the close of the with block
CWrite(p) ==
  /\ cpc[p] = "write"
  /\ cache' = WriteFile(cache, RaceFile, ccontent[p])
  /\ cpc' = [cpc EXCEPT ![p] = "parse"]
  /\ UNCHANGED <<cachedir, call, firstOk, query, asm, ckey, ccontent, cdata>>

\* lines 76-77: open(filename,"rb") and fh.read()
CRead(p) ==
  /\ cpc[p] = "read"
  /\ ccontent' = [ccontent EXCEPT ![p] = cache[RaceFile]]
  /\ cpc' = [cpc EXCEPT ![p] = "parse"]
  /\ UNCHANGED <<cachedir, cache, call, firstOk, query, asm, ckey, cdata>>

\* lines 78-86
CParse(p) ==
  /\ cpc[p] = "parse"
  /\ cdata' = [cdata EXCEPT ![p] = Normalise(cache, ckey[1], ckey[2], ccontent[p]).result]
  /\ cpc' = [cpc EXCEPT ![p] = "done"]
  /\ UNCHANGED <<cachedir, cache, call, firstOk, query, asm, ckey, ccontent>>

NextRace ==
  \E p \in Procs : CExists(p) \/ CGet(p) \/ COpen(p) \/ CWrite(p) \/ CRead(p) \/ CParse(p)

SpecRace == InitRace /\ [][NextRace]_vars

\* the last direct call missed the cache, retrieved the report and could
\* not write it
PersistFailed == CallKnown /\ ~call.hit /\ call.get = "ok" /\ call.wr # "ok"

(* C1, as stated: when a fetch misses the cache, retrieves the bytes and    *)
(* cannot persist them, the fetch still succeeds and returns the content,   *)
(* and the cache holds no entry for the key.                                *)
C1_FetchSucceedsWithoutCache ==
  PersistFailed => /\ call.result.status = "ok"
                   /\ CallFile \notin DOMAIN cache

(* C1, amended: when a fetch misses the cache, retrieves the bytes and      *)
(* cannot persist them, the fetch fails with the error of the write (or of  *)
(* removing an entry that was never created) and returns no content, and    *)
(* the cache holds no entry for the key.                                    *)
C1_PersistFailurePropagates ==
  PersistFailed => /\ call.result.status = "raise"
                   /\ call.result.exc \in {"OSError", "FileNotFoundError"}
                   /\ CallFile \notin DOMAIN cache

C1_Witness ==
  /\ PersistFailed
  /\ call.wr = "partial"
  /\ InTrace("remove", call.trace)

(* C2: a failed retrieval (network error or HTTP error status) makes the    *)
(* fetch fail and writes no cache entry, so the cache never holds the       *)
(* content of a failed retrieval.                                           *)
C2_FailedRetrievalNotCached ==
  /\ (CallKnown /\ ~call.hit /\ call.get # "ok") =>
        /\ call.result.status = "raise"
        /\ CallFile \notin DOMAIN cache
  /\ \A f \in DOMAIN cache : cache[f] # ErrorPage

(* C6, as stated: no cache entry holds the original spreadsheet bytes, and  *)
(* a cache hit does not run the format converter.                           *)
C6_CacheHoldsConvertedText ==
  /\ \A f \in DOMAIN cache : cache[f].fmt # "xls"
  /\ (CallKnown /\ call.hit) => ~InTrace("convert", call.trace)

(* C6, amended: every cache entry holds the bytes exactly as retrieved (for *)
(* a spreadsheet dataset the original workbook, never the converted text),  *)
(* and every successful fetch of a spreadsheet dataset, a cache hit         *)
(* included, runs the format converter on the cached workbook.              *)
C6_CacheHoldsRetrievedBytes ==
  /\ \A f \in DOMAIN cache : cache[f] \in {ServerReport(f[1], f[2]), ErrorPage}
  /\ (CallKnown /\ DATAFORMATS[call.dataset] = "xls" /\ call.result.status = "ok") =>
        /\ InTrace("convert", call.trace)
        /\ cache[CallFile].fmt = "xls"
        /\ call.result.data = convert_df_al2csv(cache[CallFile].body)

C6_Witness ==
  /\ CallKnown
  /\ call.dataset = "df_al"
  /\ call.hit
  /\ call.result.status = "ok"
  /\ InTrace("convert", call.trace)

(* C7: once a fetch of a key has succeeded, every later fetch of that key   *)
(* returns text identical to the first result.                              *)
C7_FetchIdempotent ==
  (CallKnown /\ CallFile \in DOMAIN firstOk) => call.result = Ok(firstOk[CallFile])

C7_Witness ==
  /\ CallKnown
  /\ call.dataset = "rt_lmp_final"
  /\ call.hit
  /\ call.result = Ok(firstOk[CallFile])
  /\ \E f \in DOMAIN firstOk : f # CallFile

(* ---------------------- claims on the assemblers ----------------------- *)
ValidTypes(q) == IF q.variant = "Node" THEN Node_VALIDTYPES ELSE Zone_VALIDTYPES
ValidValues(q) == IF q.variant = "Node" THEN Node_VALIDVALUES ELSE Zone_VALIDVALUES
BadType(q) == q.types # "*" /\ q.types \notin ValidTypes(q)
BadValue(q) == q.values # "*" /\ q.values \notin ValidValues(q)

Called == asm.op # "none"
Succeeded == Called /\ asm.result.status = "ok"
AllWildcards == query.entity = "*" /\ query.types = "*" /\ query.values = "*"

\* the canonical table of a day's text: the rows under the column header,
\* each the entity, category and value fields and then the 24 hour fields
CanonHeader(text) == text[SkipRows + 1]
CanonRows(text) == SubSeq(text, SkipRows + 2, Len(text))

\* a row has the value of every concrete filter
Matches(row) ==
  /\ query.entity # "*" => row[1] = query.entity
  /\ query.types # "*" => row[2] = query.types
  /\ query.values # "*" => row[3] = query.values

\* the descriptive fields of a row (or of the header) whose filter is the wildcard
Wild(row) ==
  (IF query.entity = "*" THEN <<row[1]>> ELSE <<>>) \o
  (IF query.types = "*" THEN <<row[2]>> ELSE <<>>) \o
  (IF query.values = "*" THEN <<row[3]>> ELSE <<>>)

HourPart(row) == SubSeq(row, 4, Len(row))

\* the day of the k-th fetched text of the last call
DayOf(k) == asm.start + k - 1

WideOfDay(k) ==
  LET sel == SelectSeq(CanonRows(asm.fetched[k]), Matches)
  IN  [i \in 1..Len(sel) |-> <<Midnight(DayOf(k))>> \o Wild(sel[i]) \o HourPart(sel[i])]

LongOfRow(k, row) ==
  LET Has(h) == ~query.dropna \/ row[4 + h] # NaN
      hours == SelectSeq([j \in 1..NumHours |-> j - 1], Has)
  IN  [i \in 1..Len(hours) |->
         <<Midnight(DayOf(k)) + hours[i] * SecondsPerHour>> \o Wild(row) \o <<row[4 + hours[i]]>>]

LongOfDay(k) ==
  LET sel == SelectSeq(CanonRows(asm.fetched[k]), Matches)
  IN  Flatten([i \in 1..Len(sel) |-> LongOfRow(k, sel[i])])

FetchedRowCount == Len(Flatten([k \in 1..Len(asm.fetched) |-> CanonRows(asm.fetched[k])]))

NoneMissing ==
  \A k \in 1..Len(asm.fetched) : \A i \in 1..Len(CanonRows(asm.fetched[k])) :
    \A h \in 1..NumHours : CanonRows(asm.fetched[k])[i][3 + h] # NaN

(* C3: when no per-day table is accumulated (a reversed range, or every    *)
(* day filtered down to zero rows) the assembler fails with EmptyResult.   *)
C3_EmptyResultRaised ==
  (Called /\ asm.completed /\ asm.naccum = 0) => asm.result = Raise("EmptyResult")

(* C4: with a category or value filter outside the vocabulary, Node and    *)
(* Zone fail before any fetch: no collaborator is called and the cache is  *)
(* unchanged.                                                              *)
C4_InvalidFilterFailsBeforeFetch ==
  [][(asm'.op # "none" /\ (BadType(query) \/ BadValue(query))) =>
        /\ asm'.result.status = "raise"
        /\ asm'.trace = <<>>
        /\ cache' = cache
        /\ cachedir' = cachedir]_vars

C4_Witness ==
  /\ Called
  /\ ~BadType(query)
  /\ BadValue(query)
  /\ asm.start <= asm.stop
  /\ asm.trace = <<>>
  /\ asm.result.status = "raise"

(* C5: a category filter outside the vocabulary fails with                 *)
(* MisoTypeNotFound, and a valid or wildcard category with a value filter  *)
(* outside the vocabulary fails with MisoValueNotFound.                    *)
C5_ErrorNamesTheFilter ==
  Called =>
    /\ BadType(query) => asm.result = Raise("MisoTypeNotFound")
    /\ (~BadType(query) /\ BadValue(query)) => asm.result = Raise("MisoValueNotFound")

(* C8: with stack=false the result is, day after day in ascending order,   *)
(* the rows of the day's canonical table that have the value of every      *)
(* concrete filter, without the filtered columns; with three wildcards the *)
(* row count is the sum of the per-day row counts.                         *)
C8_UnstackedSelection ==
  (Succeeded /\ ~query.stack) =>
    /\ Len(asm.fetched) = asm.stop - asm.start + 1
    /\ asm.result.data.rows = Flatten([k \in 1..Len(asm.fetched) |-> WideOfDay(k)])
    /\ Names(asm.result.data) =
         <<"Datetime">> \o Wild(CanonHeader(asm.fetched[1])) \o HourPart(CanonHeader(asm.fetched[1]))
    /\ AllWildcards => Len(asm.result.data.rows) = FetchedRowCount

C8_Witness ==
  /\ Succeeded
  /\ ~query.stack
  /\ query.entity = "A"
  /\ asm.start = 1
  /\ asm.stop = 2
  /\ Len(asm.result.data.rows) = 2
  /\ ~HasCol(asm.result.data, "Node")

(* C9: with stack=true every selected row of every day gives one row per   *)
(* hour column that has a value (all 24 when none is missing or dropna is  *)
(* false), its Datetime the day's midnight plus that many hours, and the   *)
(* single data column is Value; unfiltered days without missing values     *)
(* give 24 rows per canonical row.                                         *)
C9_StackedHours ==
  (Succeeded /\ query.stack) =>
    /\ Len(asm.fetched) = asm.stop - asm.start + 1
    /\ asm.result.data.rows = Flatten([k \in 1..Len(asm.fetched) |-> LongOfDay(k)])
    /\ asm.result.data.cols = <<"Value">>
    /\ asm.result.data.index = <<"Datetime">> \o Wild(CanonHeader(asm.fetched[1]))
    /\ (AllWildcards /\ (~query.dropna \/ NoneMissing)) =>
          Len(asm.result.data.rows) = FetchedRowCount * NumHours

C9_Witness ==
  /\ Succeeded
  /\ query.stack
  /\ query.dropna
  /\ AllWildcards
  /\ asm.op = "Node"
  /\ asm.start = 1
  /\ asm.stop = 2
  /\ ~NoneMissing
  /\ Len(asm.result.data.rows) = FetchedRowCount * NumHours - 1

(* --------------------- claim on concurrent fetches --------------------- *)
\* the canonical text of the complete report of the raced key
CompleteText ==
  IF DATAFORMATS[ckey[1]] = "xls"
  THEN convert_df_al2csv(ServerReport(ckey[1], ckey[2]).body)
  ELSE ServerReport(ckey[1], ckey[2]).body

(* C10: when two processes fetch the same key from a miss, under every     *)
(* interleaving each process returns the complete report content and the   *)
(* cache entry finally holds the complete content.                         *)
C10_RacingFetchesComplete ==
  /\ \A p \in Procs : cpc[p] = "done" => cdata[p] = Ok(CompleteText)
  /\ (\A p \in Procs : cpc[p] = "done") => cache[RaceFile] = ServerReport(ckey[1], ckey[2])

====
